---- MODULE Spec2Model ----
(***************************************************************************)
(* A model of the travis client library: Client::custom (the credential    *)
(* exchange), the request pipeline (raw_request / request / get) and the   *)
(* paginated streams Builds::iter and Repos::iter.                         *)
(*                                                                         *)
(* A response body is a record that stands for the bytes on the wire:      *)
(* Text renders the bytes as text, the Decode operators are serde_json on  *)
(* those bytes.  An Option is a record with a `some` field.  A network     *)
(* round trip is a suspension point, so an operation that awaits a         *)
(* response is two actions: the one that sends and the one that resumes.   *)
(***************************************************************************)
EXTENDS Integers, Sequences, FiniteSets, TLC

\* ------------------------------------------------------------------ bounds
\* the largest number of items the server puts on one page
MaxPageLen == 2
\* the length of the longest chain of pages the server serves to one stream
MaxFetches == 3
\* how many times the consumer polls a stream again after it has ended
MaxEndPulls == 1

\* ------------------------------------------------------ program constants
FORBIDDEN == 403

\* --------------------------------------------------------------- options
None == [some |-> FALSE, v |-> "-"]
Some(x) == [some |-> TRUE, v |-> x]

\* ------------------------------------------------------------ credentials
Token(t) == [kind |-> "Token", token |-> t]
Github(t) == [kind |-> "Github", token |-> t]
NoCredential == [kind |-> "None", token |-> "-"]
\* the credentials a caller passes to Client::custom
Credentials == {NoCredential, Token("tok"), Github("gh")}

\* hosts a caller passes: one that parses as a URI prefix and one that
\* does not (Uri::from_str fails on a space)
GoodHost == "https://api.travis-ci.org"
BadHost == "bad host"
Hosts == {GoodHost, BadHost}
\* str::parse::<Uri> / Uri::from_str: no spaces; a '?' inside the query is
\* accepted as a character of the query
ValidUris == { GoodHost \o p : p \in
    {"/auth/github", "/repo/slug/builds?q", "/owner/o/repos?q", "/owner/o/repos??q", "/p2", "/p3",
     "/repo/slug/env_var/id", "/repo/slug/env_vars", "/job/1/log.txt"} }
ParseUri(s) == IF s \in ValidUris THEN Some(s) ELSE None

\* ------------------------------------------------------------------ bodies
\* the hrefs the server puts in a next pointer; the last one does not parse
Hrefs == {"/p2", "/p3", "/p 4"}
\* the k-th page of a chain is the last one when k = MaxFetches
NextRefs(k) == {None} \cup (IF k < MaxFetches THEN { Some(h) : h \in Hrefs } ELSE {})
\* the items of the k-th page served: the server gives every item its own id
ItemsOf(k, n) == [i \in 1..n |-> <<k, i>>]
NoPage == [items |-> <<>>, next |-> None]
PageBodies(k) == { [t |-> "page", s |-> "-", page |-> [items |-> ItemsOf(k, n), next |-> nx]] :
                     n \in 0..MaxPageLen, nx \in NextRefs(k) }
OtherBodies == { [t |-> "access", s |-> "abc", page |-> NoPage],
                 [t |-> "error",  s |-> "denied", page |-> NoPage],
                 [t |-> "text",   s |-> "nope", page |-> NoPage],
                 [t |-> "text",   s |-> "", page |-> NoPage],
                 [t |-> "null",   s |-> "-", page |-> NoPage],
                 [t |-> "envvar", s |-> "v1", page |-> NoPage],
                 [t |-> "binary", s |-> "-", page |-> NoPage],
                 [t |-> "broken", s |-> "-", page |-> NoPage] }
Bodies(k) == PageBodies(k) \cup OtherBodies

\* body::to_bytes: reading the body fails when the connection breaks
ToBytes(body) == IF body.t = "broken" THEN None ELSE Some(body)
\* std::str::from_utf8(&body): fails on bytes that are not UTF-8
FromUtf8(body) == IF body.t = "binary" THEN None ELSE Some(body)
\* String::from_utf8_lossy(&body): the text of the bytes
Text(body) ==
    CASE body.t = "access" -> "{\"access_token\":\"" \o body.s \o "\"}"
      [] body.t = "error"  -> "{\"error_message\":\"" \o body.s \o "\"}"
      [] body.t = "text"   -> body.s
      [] body.t = "binary" -> "\\uFFFD"
      [] body.t = "null"   -> "null"
      [] body.t = "envvar" -> "{\"id\":\"" \o body.s \o "\",\"@permissions\":{}}"
      [] OTHER             -> "{\"@pagination\":{}}"

\* serde_json::from_slice::<AccessToken>
DecodeAccessToken(body) == IF body.t = "access" THEN Some(body.s) ELSE None
\* serde_json::from_slice::<ClientError>
DecodeClientError(body) == IF body.t = "error" THEN Some(body.s) ELSE None
\* serde_json::from_slice::<Wrapper>
DecodeWrapper(body) == IF body.t = "page" THEN Some(body.page) ELSE None
\* serde_json::from_slice::<T> for the T of the single calls: an EnvVar
\* (its id), or the unit type, which only the JSON null decodes to
Decode(T, body) ==
    CASE T = "EnvVar" -> IF body.t = "envvar" THEN Some(body.s) ELSE None
      [] T = "Unit"   -> IF body.t = "null" THEN Some("()") ELSE None
      [] OTHER        -> None

\* ---------------------------------------------------------------- results
NoError == [kind |-> "-", code |-> 0, error |-> "-"]
Fault(code, msg) == [kind |-> "Fault", code |-> code, error |-> msg]
Codec == [kind |-> "Codec", code |-> 0, error |-> "-"]
Hyper == [kind |-> "Hyper", code |-> 0, error |-> "-"]
InvalidUri == [kind |-> "Uri", code |-> 0, error |-> "-"]

\* a Result<T>: Ok(x), Err(e), or the task panicked; d is a T that fills
\* the value field of the results that hold no value
Ok(x) == [r |-> "ok", v |-> x, e |-> NoError]
Err(e, d) == [r |-> "err", v |-> d, e |-> e]
Panic(d) == [r |-> "panic", v |-> d, e |-> NoError]

\* ------------------------------------------------------------- responses
Statuses == {200, FORBIDDEN, 404}
IsSuccess(status) == status >= 200 /\ status < 300
EmptyBody == [t |-> "text", s |-> "", page |-> NoPage]
\* the transport could not send the request or got no response
NoResponse == [sent |-> FALSE, status |-> 0, body |-> EmptyBody]
\* what the server may answer to the k-th fetch of a chain (k = 0: any other request)
Responses(k) == {NoResponse}
          \cup { [sent |-> TRUE, status |-> st, body |-> b] : st \in Statuses, b \in Bodies(k) }

\* ------------------------------------------------------------- requests
NoRequest == [method |-> "-", uri |-> "-", userAgent |-> "-", apiVersion |-> None,
              accept |-> None, contentType |-> "-", authorization |-> None, body |-> "-"]
\* format!("Travis/{}", env!("CARGO_PKG_VERSION"))
UserAgent == "Travis/" \o "VERSION"
\* an exchange POST without the Accept header
ExchangeRequestNoAccept(uri, gh) ==
    [method |-> "POST", uri |-> uri, userAgent |-> UserAgent, apiVersion |-> None,
     accept |-> None, contentType |-> "json",
     authorization |-> None, body |-> "{\"github_token\":\"" \o gh \o "\"}"]

\* the POST of Client::custom
ExchangeRequest(uri, gh) ==
    [method |-> "POST", uri |-> uri, userAgent |-> UserAgent, apiVersion |-> None,
     accept |-> Some("application/vnd.travis-ci.2+json"), contentType |-> "json",
     authorization |-> None, body |-> "{\"github_token\":\"" \o gh \o "\"}"]
\* a raw_request whose Authorization header is the bare token
BuildRequestBareToken(credential, method, uri, body) ==
    [method |-> method, uri |-> uri, userAgent |-> UserAgent, apiVersion |-> Some("3"),
     accept |-> None, contentType |-> "json",
     authorization |-> IF credential.kind = "Token" THEN Some(credential.token) ELSE None,
     body |-> body]

\* the request raw_request builds
BuildRequest(credential, method, uri, body) ==
    [method |-> method, uri |-> uri, userAgent |-> UserAgent, apiVersion |-> Some("3"),
     accept |-> None, contentType |-> "json",
     authorization |-> IF credential.kind = "Token"
                       THEN Some("token " \o credential.token) ELSE None,
     body |-> body]

VARIABLES
    debugLog,     \* whether the installed logger enables the debug level
    ctor,         \* Client::custom's future: idle, exchanging, ready, failed, panicked
    ctorArgs,     \* the host and credential Client::custom was called with
    exchangeResp, \* the response to the exchange POST (NoResponse before it)
    ctorError,    \* the error construction returned
    client,       \* the Client construction returned
    sent,         \* every request handed to the transport, in order
    stream,       \* the stream: none, created, first, next, active, erred, done, dropped, panicked
    iterKind,     \* builds or repos
    travis,       \* the Client clone the stream's handle holds
    state,        \* the try_unfold state: the Wrapper (items reversed)
    yielded,      \* what the consumer's pulls returned, in order
    served,       \* what the stream's get calls returned, in order, each with its pull
    pulls,        \* the number of pulls the consumer made
    endPulls,     \* the number of pulls made after the stream ended
    fetchesAtDrop, \* the stream's fetch count when it was dropped
    call,         \* a single call on the Client: idle, pending, done, panicked
    callKind,     \* get, post, patch, delete or raw_log
    callResp,     \* the response to the call's request (NoResponse before it)
    callResult,   \* what the call returned
    callItems,    \* the items a list call returned
    shared,       \* two streams: the Client both handles are made from
    server,       \* two streams: what the server answered to each uri so far
    streams       \* two streams: each stream's handle, state and history

vars == <<debugLog, ctor, ctorArgs, exchangeResp, ctorError, client, sent, stream,
          iterKind, travis, state, yielded, served, pulls, endPulls, fetchesAtDrop,
          call, callKind, callResp, callResult, callItems, shared, server, streams>>
pairVars == <<shared, server, streams>>
callVars == <<call, callKind, callResp, callResult, callItems>>
ctorVars == <<ctor, ctorArgs, exchangeResp, ctorError, client>>
streamVars == <<stream, iterKind, travis, state, yielded, served, pulls, endPulls, fetchesAtDrop>>

\* the debug!(.., from_utf8(&body).unwrap()) lines: the arguments are
\* evaluated only when the debug level is enabled
DebugPanics(body) == debugLog /\ ~FromUtf8(body).some

\* the structured-error classification of a non-2xx body
ClassifyFault(status, body, d) ==
    IF DecodeClientError(body).some
    THEN Err(Fault(status, DecodeClientError(body).v), d)
    ELSE Err(Codec, d)

\* a 403 branch that decodes the body like the generic fault path
ForbiddenFaultStructured(status, body) == ClassifyFault(status, body, "-")

\* the 403 branch of the exchange: the fault carries the body as text
ForbiddenFault(status, body) == Err(Fault(status, Text(body)), "-")

\* Client::custom, the `parse` future: the outcome of the exchange POST
ExchangeResult(resp) ==
    IF ~resp.sent THEN Err(Hyper, "-")
    ELSE IF ~ToBytes(resp.body).some THEN Err(Hyper, "-")
    ELSE IF IsSuccess(resp.status)
         THEN IF DebugPanics(resp.body) THEN Panic("-")
              ELSE IF DecodeAccessToken(resp.body).some
                   THEN Ok(DecodeAccessToken(resp.body).v)
                   ELSE Err(Codec, "-")
    ELSE IF resp.status = FORBIDDEN THEN ForbiddenFault(resp.status, resp.body)
    ELSE IF DebugPanics(resp.body) THEN Panic("-")
    ELSE ClassifyFault(resp.status, resp.body, "-")

\* Client::raw_request, the `result` future: the classification of a response
RawResult(resp) ==
    IF ~resp.sent THEN Err(Hyper, EmptyBody)
    ELSE IF IsSuccess(resp.status) THEN Ok(resp.body)
    ELSE IF ~ToBytes(resp.body).some THEN Err(Hyper, EmptyBody)
    ELSE IF DebugPanics(resp.body) THEN Panic(EmptyBody)
    ELSE ClassifyFault(resp.status, resp.body, EmptyBody)

\* Client::request::<Wrapper>: buffer the success body and decode it
RequestWrapper(resp) ==
    IF RawResult(resp).r # "ok" THEN [RawResult(resp) EXCEPT !.v = NoPage]
    ELSE IF ~ToBytes(RawResult(resp).v).some THEN Err(Hyper, NoPage)
    ELSE IF DebugPanics(RawResult(resp).v) THEN Panic(NoPage)
    ELSE IF DecodeWrapper(RawResult(resp).v).some THEN Ok(DecodeWrapper(RawResult(resp).v).v)
    ELSE Err(Codec, NoPage)

NoClient == [made |-> FALSE, credential |-> NoCredential, host |-> "-"]
MakeClient(credential, host) == [made |-> TRUE, credential |-> credential, host |-> host]
NoArgs == [host |-> "-", credential |-> NoCredential]

\* a request handed to the transport, with who sent it and during which pull
Sent(req, by, pull) == [req |-> req, by |-> by, pull |-> pull]

\* ------------------------------------------------------------ two streams
\* the uris the streams of one Client fetch
PairUris == { GoodHost \o p : p \in {"/repo/slug/builds?q", "/owner/o/repos?q", "/p2", "/p3"} }
\* the server has not been asked for a uri yet
Unasked == [known |-> FALSE, resp |-> NoResponse]
Asked(resp) == [known |-> TRUE, resp |-> resp]
\* a stream: its handle's Client, the try_unfold state, what it yielded and
\* the requests it handed to the transport
NoStream == [st |-> "none", kind |-> "-", travis |-> NoClient, state |-> NoPage,
             yielded |-> <<>>, fetched |-> <<>>]
StreamIds == {1, 2}

\* ------------------------------------------------------------ construction
Init ==
    /\ debugLog \in BOOLEAN
    /\ ctor = "idle"
    /\ ctorArgs = NoArgs
    /\ exchangeResp = NoResponse
    /\ ctorError = NoError
    /\ client = NoClient
    /\ sent = <<>>
    /\ stream = "none"
    /\ iterKind = "-"
    /\ travis = NoClient
    /\ state = NoPage
    /\ yielded = <<>>
    /\ served = <<>>
    /\ pulls = 0
    /\ endPulls = 0
    /\ fetchesAtDrop = 0
    /\ call = "idle"
    /\ callKind = "-"
    /\ callResp = NoResponse
    /\ callResult = Ok("-")
    /\ callItems = <<>>
    /\ shared = NoClient
    /\ server = [u \in PairUris |-> Unasked]
    /\ streams = [i \in StreamIds |-> NoStream]

\* the exchange path on the configured host
ExchangeUri(host) == host \o "/auth/github"

\* a match that sends every credential through the exchange
NeedsExchangeAny(credential) == credential.kind # "None"

\* a match that sends no credential through the exchange
NeedsExchangeNever(credential) == FALSE

\* match credential: only Some(Credential::Github(gh)) is exchanged
NeedsExchange(credential) == credential.kind = "Github"

\* an exchange that keeps the credential an identity token
ExchangedCredentialGithub(access) == Github(access)

\* the credential of the Client the exchange yields
ExchangedCredential(access) == Token(access)

\* Client::custom with an API token or no credential: the default branch
CustomPlain(host, credential) ==
    /\ ctor = "idle"
    /\ ~NeedsExchange(credential)
    /\ ctor' = "ready"
    /\ ctorArgs' = [host |-> host, credential |-> credential]
    /\ client' = MakeClient(credential, host)
    /\ UNCHANGED <<debugLog, exchangeResp, ctorError, sent>>
    /\ UNCHANGED streamVars
    /\ UNCHANGED callVars
    /\ UNCHANGED pairVars

\* Client::custom with a Github token: build the POST and hand it to the transport
CustomGithub(host, credential) ==
    /\ ctor = "idle"
    /\ NeedsExchange(credential)
    /\ ctorArgs' = [host |-> host, credential |-> credential]
    /\ IF ParseUri(ExchangeUri(host)).some
       THEN /\ ctor' = "exchanging"
            /\ sent' = Append(sent, Sent(ExchangeRequest(ParseUri(ExchangeUri(host)).v,
                                                          credential.token), "custom", 0))
            /\ ctorError' = ctorError
       ELSE /\ ctor' = "failed"
            /\ ctorError' = InvalidUri
            /\ sent' = sent
    /\ UNCHANGED <<debugLog, exchangeResp, client>>
    /\ UNCHANGED streamVars
    /\ UNCHANGED callVars
    /\ UNCHANGED pairVars

\* Client::custom resumes with the response to the POST
ExchangeResponded(resp) ==
    /\ ctor = "exchanging"
    /\ exchangeResp' = resp
    /\ LET res == ExchangeResult(resp) IN
       CASE res.r = "panic" ->
              /\ ctor' = "panicked"
              /\ UNCHANGED <<ctorError, client>>
         [] res.r = "err" ->
              /\ ctor' = "failed"
              /\ ctorError' = res.e
              /\ client' = client
         [] OTHER ->
              /\ ctor' = "ready"
              /\ client' = MakeClient(ExchangedCredential(res.v), ctorArgs.host)
              /\ ctorError' = ctorError
    /\ UNCHANGED <<debugLog, ctorArgs, sent>>
    /\ UNCHANGED streamVars
    /\ UNCHANGED callVars
    /\ UNCHANGED pairVars

\* ------------------------------------------------------------------ streams
Reverse(s) == [i \in 1..Len(s) |-> s[Len(s) + 1 - i]]
Last(s) == s[Len(s)]
Front(s) == SubSeq(s, 1, Len(s) - 1)

YItem(it, p) == [t |-> "item", item |-> it, e |-> NoError, pull |-> p]
YErr(e, p) == [t |-> "err", item |-> <<0, 0>>, e |-> e, pull |-> p]
YEnd(p) == [t |-> "end", item |-> <<0, 0>>, e |-> NoError, pull |-> p]

\* the first page's uri
FirstUri(kind, host) ==
    IF kind = "builds" THEN host \o "/repo/slug/builds?q" ELSE host \o "/owner/o/repos?q"
\* a next-page uri that ignores the page's own pointer
NextUriStale(host, href) == host \o "/p2"

\* a next-page uri that goes back to the first page
NextUriFirst(host, href) == host \o "/repo/slug/builds?q"

\* a later page's uri
NextUri(host, href) == host \o href

\* the requests the stream handed to the transport
StreamFetches == Len(SelectSeq(sent, LAMBDA x : x.by = "stream"))

\* Client::get: the GET raw_request builds for the uri, or nothing when the uri does not parse
Get(c, uri) == IF ParseUri(uri).some
               THEN Some(BuildRequest(c.credential, "GET", ParseUri(uri).v, ""))
               ELSE None

\* a map_ok closure that keeps the page's order
Unreversed(page) == page

\* the map_ok closures: reverse the page's items
Reversed(page) == [items |-> Reverse(page.items), next |-> page.next]

\* what a get call of the stream returned, and the pull that made the call
Got(res, p) == [res |-> res, pull |-> p]

\* a HasNext that follows a next pointer the page does not have
HasNextAlways(st) == TRUE

\* match state.pagination.next.clone(): whether the page names a next page
HasNext(st) == st.next.some

\* a pop that leaves the last buffered item behind
BufferHasItems(st) == Len(st.items) > 1

\* match state.builds.pop(): Some(build) when the buffer holds an item
BufferHasItem(st) == Len(st.items) > 0

\* the try_unfold closure applied to `st` during pull p; srv is the get history so far
Unfold(st, p, srv) ==
    IF BufferHasItem(st)
    THEN /\ yielded' = Append(yielded, YItem(Last(st.items), p))
         /\ state' = [st EXCEPT !.items = Front(st.items)]
         /\ stream' = "active"
         /\ sent' = sent
         /\ served' = srv
    ELSE IF ~HasNext(st)
    THEN /\ yielded' = Append(yielded, YEnd(p))
         /\ state' = NoPage
         /\ stream' = "done"
         /\ sent' = sent
         /\ served' = srv
    ELSE IF Get(travis, NextUri(travis.host, st.next.v)).some
    THEN /\ sent' = Append(sent, Sent(Get(travis, NextUri(travis.host, st.next.v)).v, "stream", p))
         /\ state' = NoPage
         /\ stream' = "next"
         /\ yielded' = yielded
         /\ served' = srv
    ELSE /\ yielded' = Append(yielded, YErr(InvalidUri, p))
         /\ state' = NoPage
         /\ stream' = "erred"
         /\ sent' = sent
         /\ served' = Append(srv, Got(Err(InvalidUri, NoPage), p))

\* an iter whose handle holds a Client without the credential
IterAnonymous(kind) ==
    /\ ctor = "ready"
    /\ stream = "none"
    /\ call = "idle"
    /\ stream' = "created"
    /\ iterKind' = kind
    /\ travis' = MakeClient(NoCredential, client.host)
    /\ UNCHANGED <<debugLog, sent, state, yielded, served, pulls, endPulls, fetchesAtDrop>>
    /\ UNCHANGED ctorVars
    /\ UNCHANGED callVars
    /\ UNCHANGED pairVars

\* an iter that sends the first page's GET when the stream is built
IterEager(kind) ==
    /\ ctor = "ready"
    /\ stream = "none"
    /\ call = "idle"
    /\ Get(client, FirstUri(kind, client.host)).some
    /\ stream' = "first"
    /\ iterKind' = kind
    /\ travis' = client
    /\ sent' = Append(sent, Sent(Get(client, FirstUri(kind, client.host)).v, "stream", 0))
    /\ UNCHANGED <<debugLog, state, yielded, served, pulls, endPulls, fetchesAtDrop>>
    /\ UNCHANGED ctorVars
    /\ UNCHANGED callVars
    /\ UNCHANGED pairVars

\* Builds::iter / Repos::iter: build the stream; nothing is polled yet
Iter(kind) ==
    /\ ctor = "ready"
    /\ stream = "none"
    /\ call = "idle"
    /\ stream' = "created"
    /\ iterKind' = kind
    /\ travis' = client
    /\ UNCHANGED <<debugLog, sent, state, yielded, served, pulls, endPulls, fetchesAtDrop>>
    /\ UNCHANGED ctorVars
    /\ UNCHANGED callVars
    /\ UNCHANGED pairVars

\* the first pull: the `first` future is polled and sends its GET
PullFirst ==
    /\ stream = "created"
    /\ pulls' = pulls + 1
    /\ IF Get(travis, FirstUri(iterKind, travis.host)).some
       THEN /\ sent' = Append(sent, Sent(Get(travis, FirstUri(iterKind, travis.host)).v,
                                         "stream", pulls + 1))
            /\ stream' = "first"
            /\ yielded' = yielded
            /\ served' = served
       ELSE /\ yielded' = Append(yielded, YErr(InvalidUri, pulls + 1))
            /\ stream' = "erred"
            /\ sent' = sent
            /\ served' = Append(served, Got(Err(InvalidUri, NoPage), pulls + 1))
    /\ UNCHANGED <<debugLog, iterKind, travis, state, endPulls, fetchesAtDrop>>
    /\ UNCHANGED ctorVars
    /\ UNCHANGED callVars
    /\ UNCHANGED pairVars

\* a pull while the stream holds a page
PullActive ==
    /\ stream = "active"
    /\ pulls' = pulls + 1
    /\ Unfold(state, pulls + 1, served)
    /\ UNCHANGED <<debugLog, iterKind, travis, endPulls, fetchesAtDrop>>
    /\ UNCHANGED ctorVars
    /\ UNCHANGED callVars
    /\ UNCHANGED pairVars

\* a pull after an error that sends the first page's GET again
PullErredRetry ==
    /\ stream = "erred"
    /\ Get(travis, FirstUri(iterKind, travis.host)).some
    /\ pulls' = pulls + 1
    /\ sent' = Append(sent, Sent(Get(travis, FirstUri(iterKind, travis.host)).v,
                                 "stream", pulls + 1))
    /\ stream' = "next"
    /\ UNCHANGED <<debugLog, iterKind, travis, state, yielded, served, endPulls, fetchesAtDrop>>
    /\ UNCHANGED ctorVars
    /\ UNCHANGED callVars
    /\ UNCHANGED pairVars

\* the pull after an error was yielded: the stream ends
PullErred ==
    /\ stream = "erred"
    /\ pulls' = pulls + 1
    /\ yielded' = Append(yielded, YEnd(pulls + 1))
    /\ stream' = "done"
    /\ UNCHANGED <<debugLog, sent, iterKind, travis, state, served, endPulls, fetchesAtDrop>>
    /\ UNCHANGED ctorVars
    /\ UNCHANGED callVars
    /\ UNCHANGED pairVars

\* a pull after the end that starts the listing again
PullDoneRestart ==
    /\ stream = "done"
    /\ endPulls < MaxEndPulls
    /\ Get(travis, FirstUri(iterKind, travis.host)).some
    /\ pulls' = pulls + 1
    /\ endPulls' = endPulls + 1
    /\ sent' = Append(sent, Sent(Get(travis, FirstUri(iterKind, travis.host)).v,
                                 "stream", pulls + 1))
    /\ stream' = "first"
    /\ UNCHANGED <<debugLog, iterKind, travis, state, yielded, served, fetchesAtDrop>>
    /\ UNCHANGED ctorVars
    /\ UNCHANGED callVars
    /\ UNCHANGED pairVars

\* a pull after the stream ended
PullDone ==
    /\ stream = "done"
    /\ endPulls < MaxEndPulls
    /\ pulls' = pulls + 1
    /\ endPulls' = endPulls + 1
    /\ yielded' = Append(yielded, YEnd(pulls + 1))
    /\ UNCHANGED <<debugLog, sent, stream, iterKind, travis, state, served, fetchesAtDrop>>
    /\ UNCHANGED ctorVars
    /\ UNCHANGED callVars
    /\ UNCHANGED pairVars

\* the pull resumes with the response to the first page's GET
RespondFirst(resp) ==
    /\ stream = "first"
    /\ LET res == RequestWrapper(resp) IN
       CASE res.r = "panic" ->
              /\ stream' = "panicked"
              /\ served' = Append(served, Got(res, pulls))
              /\ UNCHANGED <<sent, state, yielded>>
         [] res.r = "err" ->
              /\ yielded' = Append(yielded, YErr(res.e, pulls))
              /\ stream' = "erred"
              /\ served' = Append(served, Got(res, pulls))
              /\ UNCHANGED <<sent, state>>
         [] OTHER -> Unfold(Reversed(res.v), pulls, Append(served, Got(res, pulls)))
    /\ UNCHANGED <<debugLog, iterKind, travis, pulls, endPulls, fetchesAtDrop>>
    /\ UNCHANGED ctorVars
    /\ UNCHANGED callVars
    /\ UNCHANGED pairVars

\* the map_ok closure of a later page: reverse, then pop().unwrap()
NextPage(page) ==
    IF Len(Reversed(page).items) = 0 THEN Panic([item |-> <<0, 0>>, next |-> NoPage])
    ELSE Ok([item |-> Last(Reversed(page).items),
             next |-> [Reversed(page) EXCEPT !.items = Front(Reversed(page).items)]])

\* the pull resumes with the response to a later page's GET
RespondNext(resp) ==
    /\ stream = "next"
    /\ served' = Append(served, Got(RequestWrapper(resp), pulls))
    /\ LET res == RequestWrapper(resp) IN
       CASE res.r = "panic" ->
              /\ stream' = "panicked"
              /\ UNCHANGED <<state, yielded>>
         [] res.r = "err" ->
              /\ yielded' = Append(yielded, YErr(res.e, pulls))
              /\ stream' = "erred"
              /\ state' = state
         [] OTHER ->
              IF NextPage(res.v).r = "panic"
              THEN /\ stream' = "panicked"
                   /\ UNCHANGED <<state, yielded>>
              ELSE /\ yielded' = Append(yielded, YItem(NextPage(res.v).v.item, pulls))
                   /\ state' = NextPage(res.v).v.next
                   /\ stream' = "active"
    /\ UNCHANGED <<debugLog, sent, iterKind, travis, pulls, endPulls, fetchesAtDrop>>
    /\ UNCHANGED ctorVars
    /\ UNCHANGED callVars
    /\ UNCHANGED pairVars

\* a drop that sends the GET of the next page on its way out
DropPrefetching ==
    /\ stream \in {"created", "first", "next", "active", "erred", "done"}
    /\ stream' = "dropped"
    /\ state' = NoPage
    /\ fetchesAtDrop' = StreamFetches
    /\ sent' = IF HasNext(state) /\ Get(travis, NextUri(travis.host, state.next.v)).some
               THEN Append(sent, Sent(Get(travis, NextUri(travis.host, state.next.v)).v,
                                      "stream", pulls))
               ELSE sent
    /\ UNCHANGED <<debugLog, iterKind, travis, yielded, served, pulls, endPulls>>
    /\ UNCHANGED ctorVars
    /\ UNCHANGED callVars
    /\ UNCHANGED pairVars

\* the consumer drops the stream: its buffer and any pending request go with it
Drop ==
    /\ stream \in {"created", "first", "next", "active", "erred", "done"}
    /\ stream' = "dropped"
    /\ state' = NoPage
    /\ fetchesAtDrop' = StreamFetches
    /\ UNCHANGED <<debugLog, sent, iterKind, travis, yielded, served, pulls, endPulls>>
    /\ UNCHANGED ctorVars
    /\ UNCHANGED callVars
    /\ UNCHANGED pairVars

\* ------------------------------------------------------------ single calls
\* Client::request::<T>: raw_request, then buffer the success body and decode it
Request(T, resp) ==
    IF RawResult(resp).r # "ok" THEN [RawResult(resp) EXCEPT !.v = "-"]
    ELSE IF ~ToBytes(RawResult(resp).v).some THEN Err(Hyper, "-")
    ELSE IF DebugPanics(RawResult(resp).v) THEN Panic("-")
    ELSE IF Decode(T, RawResult(resp).v).some THEN Ok(Decode(T, RawResult(resp).v).v)
    ELSE Err(Codec, "-")

\* Client::delete: request::<()>, with a Codec error turned into Ok(())
DeleteResult(resp) ==
    IF Request("Unit", resp).r = "err" /\ Request("Unit", resp).e.kind = "Codec"
    THEN Ok("()")
    ELSE Request("Unit", resp)

\* Client::raw_request as raw_log uses it: the success body is handed back unread
RawLogResult(resp) == [RawResult(resp) EXCEPT !.v = IF RawResult(resp).r = "ok" THEN "body" ELSE "-"]

\* Builds::list and Repos::list: get::<Wrapper>, then the page's items
ListKinds == {"builds_list", "repos_list"}
ListResult(resp) == [RequestWrapper(resp) EXCEPT !.v = IF RequestWrapper(resp).r = "ok" THEN "items" ELSE "-"]
ListItems(kind, resp) ==
    IF kind \in ListKinds /\ RequestWrapper(resp).r = "ok" THEN RequestWrapper(resp).v.items ELSE <<>>

CallKinds == {"get", "post", "patch", "delete", "raw_log"} \cup ListKinds
\* the method each call hands to request / raw_request
Method(kind) ==
    CASE kind = "post" -> "POST"
      [] kind = "patch" -> "PATCH"
      [] kind = "delete" -> "DELETE"
      [] OTHER -> "GET"
\* the uri futures of Env::get / set / update / delete, Client::raw_log,
\* Builds::list and Repos::list
CallUri(kind, host) ==
    CASE kind = "post" -> host \o "/repo/slug/env_vars"
      [] kind = "raw_log" -> host \o "/job/1/log.txt"
      [] kind = "builds_list" -> host \o "/repo/slug/builds?q"
      [] kind = "repos_list" -> host \o "/owner/o/repos??q"
      [] OTHER -> host \o "/repo/slug/env_var/id"
\* Some(serde_json::to_vec(&body).unwrap()) for post and patch, None otherwise
CallBody(kind) == IF kind \in {"post", "patch"} THEN "{\"env_var.name\":\"n\"}" ELSE ""
\* what the call returns for a response
CallResultOf(kind, resp) ==
    CASE kind = "delete" -> DeleteResult(resp)
      [] kind = "raw_log" -> RawLogResult(resp)
      [] kind \in ListKinds -> ListResult(resp)
      [] OTHER -> Request("EnvVar", resp)

\* the requests single calls handed to the transport
CallFetches == Len(SelectSeq(sent, LAMBDA x : x.by = "call"))

\* a call of get / post / patch / delete / raw_log on the Client: post and
\* patch serialize the body first (to_vec(..).unwrap()), then raw_request
\* resolves the uri and hands the request to the transport
Call(kind, encodes) ==
    /\ ctor = "ready"
    /\ stream = "none"
    /\ call = "idle"
    /\ callKind' = kind
    /\ IF kind \in {"post", "patch"} /\ ~encodes
       THEN /\ call' = "panicked"
            /\ UNCHANGED <<sent, callResult>>
       ELSE IF ParseUri(CallUri(kind, client.host)).some
       THEN /\ sent' = Append(sent, Sent(BuildRequest(client.credential, Method(kind),
                                           ParseUri(CallUri(kind, client.host)).v,
                                           CallBody(kind)), "call", 0))
            /\ call' = "pending"
            /\ callResult' = callResult
       ELSE /\ call' = "done"
            /\ callResult' = Err(InvalidUri, "-")
            /\ sent' = sent
    /\ UNCHANGED <<debugLog, callResp, callItems>>
    /\ UNCHANGED ctorVars
    /\ UNCHANGED streamVars
    /\ UNCHANGED pairVars

\* a call that sends its request again when the response is an error
CallRespondedRetry(resp) ==
    /\ call = "pending"
    /\ callResp' = resp
    /\ IF CallResultOf(callKind, resp).r = "panic"
       THEN /\ call' = "panicked"
            /\ UNCHANGED <<callResult, sent>>
       ELSE IF CallResultOf(callKind, resp).r = "err" /\ CallFetches < 2
       THEN /\ call' = "pending"
            /\ callResult' = callResult
            /\ sent' = Append(sent, sent[Len(sent)])
       ELSE /\ call' = "done"
            /\ callResult' = CallResultOf(callKind, resp)
            /\ sent' = sent
    /\ UNCHANGED <<debugLog, callKind, callItems>>
    /\ UNCHANGED ctorVars
    /\ UNCHANGED streamVars
    /\ UNCHANGED pairVars

\* the call resumes with the response to its request
CallResponded(resp) ==
    /\ call = "pending"
    /\ callResp' = resp
    /\ IF CallResultOf(callKind, resp).r = "panic"
       THEN /\ call' = "panicked"
            /\ callResult' = callResult
       ELSE /\ call' = "done"
            /\ callResult' = CallResultOf(callKind, resp)
    /\ callItems' = ListItems(callKind, resp)
    /\ UNCHANGED <<debugLog, sent, callKind>>
    /\ UNCHANGED ctorVars
    /\ UNCHANGED streamVars
    /\ UNCHANGED pairVars

\* ------------------------------------------------- two streams of one Client
\* the pages the server has at a uri: the page's number, sizes and next pointers
PairPageNo(u) ==
    CASE u = GoodHost \o "/p2" -> 2
      [] u = GoodHost \o "/p3" -> 3
      [] OTHER -> 1
PairNextRefs(u) ==
    {None} \cup { Some(h) : h \in { x \in {"/p2", "/p3"} : PairPageNo(GoodHost \o x) > PairPageNo(u) } }
PairResponses(u) ==
    { NoResponse, [sent |-> TRUE, status |-> 404, body |-> [t |-> "error", s |-> "denied", page |-> NoPage]] }
    \cup { [sent |-> TRUE, status |-> 200,
            body |-> [t |-> "page", s |-> "-",
                      page |-> [items |-> ItemsOf(PairPageNo(u), n), next |-> nx]]] :
             n \in {0, MaxPageLen}, nx \in PairNextRefs(u) }

\* the first poll of a stream: the `first` future sends its GET
PolledFirst(s) ==
    IF Get(s.travis, FirstUri(s.kind, s.travis.host)).some
    THEN [s EXCEPT !.st = "first",
                   !.fetched = Append(@, Get(s.travis, FirstUri(s.kind, s.travis.host)).v)]
    ELSE [s EXCEPT !.st = "erred", !.yielded = Append(@, YErr(InvalidUri, 0))]

\* the try_unfold closure applied to the state of stream s
Unfolded(s) ==
    IF BufferHasItem(s.state)
    THEN [s EXCEPT !.st = "active",
                   !.yielded = Append(@, YItem(Last(s.state.items), 0)),
                   !.state = [items |-> Front(s.state.items), next |-> s.state.next]]
    ELSE IF ~HasNext(s.state)
    THEN [s EXCEPT !.st = "done", !.yielded = Append(@, YEnd(0)), !.state = NoPage]
    ELSE IF Get(s.travis, NextUri(s.travis.host, s.state.next.v)).some
    THEN [s EXCEPT !.st = "next", !.state = NoPage,
                   !.fetched = Append(@, Get(s.travis, NextUri(s.travis.host, s.state.next.v)).v)]
    ELSE [s EXCEPT !.st = "erred", !.state = NoPage, !.yielded = Append(@, YErr(InvalidUri, 0))]

\* a pull on stream s that needs no response
Pulled(s) ==
    CASE s.st = "created" -> PolledFirst(s)
      [] s.st = "active"  -> Unfolded(s)
      [] OTHER            -> [s EXCEPT !.st = "done", !.yielded = Append(@, YEnd(0))]

\* the pull of stream s resumes with the result of its get call
Resumed(s, res) ==
    IF res.r = "panic" THEN [s EXCEPT !.st = "panicked"]
    ELSE IF res.r = "err"
    THEN [s EXCEPT !.st = "erred", !.yielded = Append(@, YErr(res.e, 0))]
    ELSE IF s.st = "first" THEN Unfolded([s EXCEPT !.state = Reversed(res.v)])
    ELSE IF NextPage(res.v).r = "panic" THEN [s EXCEPT !.st = "panicked"]
    ELSE [s EXCEPT !.st = "active",
                   !.yielded = Append(@, YItem(NextPage(res.v).v.item, 0)),
                   !.state = NextPage(res.v).v.next]

\* a try_unfold state that every stream of the Client reads from one place
StateOfFirst(i) == streams[1].state

\* the try_unfold state a pull of stream i works on: the stream's own
StateOf(i) == streams[i].state

\* Builds::iter / Repos::iter on a handle of the shared Client
PairIter(i, kind) ==
    /\ shared.made
    /\ streams[i].st = "none"
    /\ streams' = [streams EXCEPT ![i] = [NoStream EXCEPT !.st = "created", !.kind = kind,
                                                           !.travis = shared]]
    /\ UNCHANGED <<shared, server>>
    /\ UNCHANGED <<debugLog, sent, ctorVars, streamVars, callVars>>

\* the consumer pulls stream i
PairPull(i) ==
    /\ streams[i].st \in {"created", "active", "erred"}
    /\ streams' = [streams EXCEPT ![i] = Pulled([streams[i] EXCEPT !.state = StateOf(i)])]
    /\ UNCHANGED <<shared, server>>
    /\ UNCHANGED <<debugLog, sent, ctorVars, streamVars, callVars>>

\* the server answers the request stream i is waiting for: a uri always
\* gets the same answer
PairRespond(i, resp) ==
    /\ streams[i].st \in {"first", "next"}
    /\ LET u == Last(streams[i].fetched).uri IN
         /\ resp \in PairResponses(u)
         /\ server[u].known => resp = server[u].resp
         /\ server' = [server EXCEPT ![u] = Asked(resp)]
    /\ streams' = [streams EXCEPT ![i] = Resumed(streams[i], RequestWrapper(resp))]
    /\ UNCHANGED shared
    /\ UNCHANGED <<debugLog, sent, ctorVars, streamVars, callVars>>

\* the consumer drops stream i
PairDrop(i) ==
    /\ streams[i].st \in {"created", "first", "next", "active", "erred", "done"}
    /\ streams' = [streams EXCEPT ![i] = [@ EXCEPT !.st = "dropped", !.state = NoPage]]
    /\ UNCHANGED <<shared, server>>
    /\ UNCHANGED <<debugLog, sent, ctorVars, streamVars, callVars>>

\* Client::custom, the default branch: the Client the two handles share
PairCustom(host, credential) ==
    /\ ~shared.made
    /\ ~NeedsExchange(credential)
    /\ shared' = MakeClient(credential, host)
    /\ UNCHANGED <<server, streams>>
    /\ UNCHANGED <<debugLog, sent, ctorVars, streamVars, callVars>>

\* nothing constructed yet; the logger leaves the debug level off
PairInit == Init /\ ~debugLog

PairNext ==
    \/ \E h \in Hosts, c \in Credentials : PairCustom(h, c)
    \/ \E i \in StreamIds, k \in {"builds", "repos"} : PairIter(i, k)
    \/ \E i \in StreamIds : PairPull(i)
    \/ \E i \in StreamIds, resp \in UNION { PairResponses(u) : u \in PairUris } : PairRespond(i, resp)
    \/ \E i \in StreamIds : PairDrop(i)

Next ==
    \/ \E h \in Hosts, c \in Credentials : CustomPlain(h, c)
    \/ \E h \in Hosts, c \in Credentials : CustomGithub(h, c)
    \/ \E resp \in Responses(0) : ExchangeResponded(resp)
    \/ \E k \in {"builds", "repos"} : Iter(k)
    \/ PullFirst
    \/ PullActive
    \/ PullErred
    \/ PullDone
    \/ \E resp \in Responses(Len(served) + 1) : RespondFirst(resp)
    \/ \E resp \in Responses(Len(served) + 1) : RespondNext(resp)
    \/ Drop
    \/ \E k \in CallKinds, enc \in BOOLEAN : Call(k, enc)
    \/ \E resp \in Responses(IF callKind \in ListKinds THEN 1 ELSE 0) : CallResponded(resp)

Spec == Init /\ [][Next]_vars

\* two streams of one Client, pulled in any interleaving
PairSpec == PairInit /\ [][PairNext]_vars

\* the consumer keeps pulling and the transport answers every request
FairSpec ==
    /\ Spec
    /\ WF_vars(PullFirst)
    /\ WF_vars(PullActive)
    /\ WF_vars(\E resp \in Responses(Len(served) + 1) : RespondFirst(resp))
    /\ WF_vars(\E resp \in Responses(Len(served) + 1) : RespondNext(resp))

\* ================================================================= claims
RECURSIVE ItemsThrough(_)
\* the items of the pages the first k get calls returned, in page order
ItemsThrough(k) ==
    IF k = 0 THEN <<>>
    ELSE ItemsThrough(k - 1) \o (IF served[k].res.r = "ok" THEN served[k].res.v.items ELSE <<>>)

\* the items the consumer received, in order
YieldedItems ==
    LET its == SelectSeq(yielded, LAMBDA y : y.t = "item")
    IN [i \in 1..Len(its) |-> its[i].item]

\* every get call of the stream returned a page
AllFetchesOk == \A k \in 1..Len(served) : served[k].res.r = "ok"

\* the requests of the stream, in order
StreamSent == SelectSeq(sent, LAMBDA x : x.by = "stream")

\* the page the last get call returned has no next pointer
FinalPageFetched ==
    /\ Len(served) > 0
    /\ served[Len(served)].res.r = "ok"
    /\ ~served[Len(served)].res.v.next.some

\* C1: when every fetch of a chain succeeded, the consumed stream ends and
\* has yielded the concatenation of the pages' items, in page order; the
\* stream never stops in another way (stated as the claim states it).
C1_Concatenation ==
    (AllFetchesOk /\ stream \in {"done", "panicked"})
        => (stream = "done" /\ YieldedItems = ItemsThrough(Len(served)))

\* C2: a get call that returns a page with no items and a next pointer
\* (one that parses) is followed, in the same step, by the GET of that next page.
C2_EmptyPageAdvances ==
    [][ ( /\ Len(served') = Len(served) + 1
          /\ served'[Len(served')].res.r = "ok"
          /\ Len(served'[Len(served')].res.v.items) = 0
          /\ served'[Len(served')].res.v.next.some
          /\ ParseUri(NextUri(travis.host, served'[Len(served')].res.v.next.v)).some )
        => ( /\ stream' = "next"
             /\ StreamFetches' = StreamFetches + 1 ) ]_vars

\* C3: once a page without next pointer was fetched no further GET is sent,
\* and the pull made when that page's buffer is empty ends the stream with
\* end-of-stream, without an error and without a request.
C3_FinalPageEnds ==
    /\ [](FinalPageFetched => (StreamFetches = Len(served) /\ stream \notin {"first", "next"}))
    /\ [][ ( /\ stream = "active"
              /\ Len(state.items) = 0
              /\ ~state.next.some
              /\ pulls' = pulls + 1 )
            => ( /\ stream' = "done"
                 /\ yielded' = Append(yielded, YEnd(pulls'))
                 /\ sent' = sent ) ]_vars

\* C3 witness: a chain of two pages was consumed to its clean end
C3_Witness ==
    /\ stream = "done"
    /\ FinalPageFetched
    /\ Len(served) = 2
    /\ Len(YieldedItems) = 3
    /\ yielded[Len(yielded)].t = "end"
    /\ \A i \in 1..Len(yielded) : yielded[i].t # "err"

\* C4: when the k-th get call returned an error, it is the last call, no
\* request follows it, and the consumer received the items of pages 1..k-1
\* in order, then that error once, on the pull that made the call, then
\* nothing but end-of-stream.
C4_ErrorEndsStream ==
    \A k \in 1..Len(served) :
        served[k].res.r = "err" =>
            LET n == Len(ItemsThrough(k - 1)) IN
            /\ k = Len(served)
            /\ stream \in {"erred", "done", "dropped"}
            /\ Len(StreamSent) \in {k - 1, k}
            /\ Len(StreamSent) = k => StreamSent[k].pull = served[k].pull
            /\ Len(yielded) >= n + 1
            /\ \A i \in 1..n : yielded[i].t = "item" /\ yielded[i].item = ItemsThrough(k - 1)[i]
            /\ yielded[n + 1] = YErr(served[k].res.e, served[k].pull)
            /\ \A i \in (n + 2)..Len(yielded) : yielded[i].t = "end"

\* C4 witness: the second page's fetch failed after the first page's two
\* items were yielded, and the consumer pulled again
C4_Witness ==
    /\ Len(served) = 2
    /\ served[2].res.r = "err"
    /\ Len(StreamSent) = 2
    /\ Len(YieldedItems) = 2
    /\ stream = "done"
    /\ yielded[Len(yielded)].t = "end"

\* C5: after the stream was dropped, the number of requests it sent is the
\* number it had sent when it was dropped.
C5_DropStopsFetching ==
    stream = "dropped" => StreamFetches = fetchesAtDrop

\* C5 witness: dropped after an item of page 1 was pulled, page 1 naming a
\* next page that was never requested
C5_Witness ==
    /\ stream = "dropped"
    /\ fetchesAtDrop = 1
    /\ Len(served) = 1
    /\ served[1].res.r = "ok"
    /\ served[1].res.v.next.some
    /\ Len(YieldedItems) >= 1

\* the response to the exchange POST arrived with its body
ExchangeAnswered ==
    /\ ctor \notin {"idle", "exchanging"}
    /\ ctorArgs.credential.kind = "Github"
    /\ exchangeResp.sent
    /\ ToBytes(exchangeResp.body).some

\* C6: a 2xx answer {"access_token":"abc"} to the exchange makes
\* construction succeed with a Client whose credential is Token("abc").
C6_ExchangeSuccess ==
    ( /\ ExchangeAnswered
      /\ IsSuccess(exchangeResp.status)
      /\ Text(exchangeResp.body) = "{\"access_token\":\"abc\"}" )
    => ( /\ ctor = "ready"
         /\ client = MakeClient(Token("abc"), ctorArgs.host) )

\* C6 witness: the exchange of Github("gh") succeeded
C6_Witness ==
    /\ ExchangeAnswered
    /\ exchangeResp.status = 200
    /\ exchangeResp.body.t = "access"
    /\ ctor = "ready"
    /\ ctorArgs.credential = Github("gh")

\* C7: a 403 answer to the exchange makes construction fail with
\* Fault{403, the body as text}, whatever the body is.
C7_ForbiddenRawBody ==
    (ExchangeAnswered /\ exchangeResp.status = 403)
    => ( /\ ctor = "failed"
         /\ ~client.made
         /\ ctorError = Fault(403, Text(exchangeResp.body)) )

\* C7 witness: a 403 whose body is a structured error object
C7_Witness ==
    /\ ExchangeAnswered
    /\ exchangeResp.status = 403
    /\ DecodeClientError(exchangeResp.body).some
    /\ ctorError = Fault(403, "{\"error_message\":\"denied\"}")

\* C8: a non-2xx answer other than 403 makes construction fail, with
\* Fault{status, error_message} when the body decodes as a structured
\* error object and with a decode error when it does not.
C8_OtherStatusClassified ==
    ( /\ ExchangeAnswered
      /\ ~IsSuccess(exchangeResp.status)
      /\ exchangeResp.status # 403 )
    => ( /\ ctor = "failed"
         /\ ctorError = IF DecodeClientError(exchangeResp.body).some
                         THEN Fault(exchangeResp.status, DecodeClientError(exchangeResp.body).v)
                         ELSE Codec )

\* the exchange was attempted and did not yield an access token
ExchangeFailed ==
    /\ ctor \notin {"idle", "exchanging"}
    /\ ctorArgs.credential.kind = "Github"
    /\ \/ ~exchangeResp.sent
       \/ ~IsSuccess(exchangeResp.status)
       \/ ~ToBytes(exchangeResp.body).some
       \/ ~DecodeAccessToken(exchangeResp.body).some

\* C9: every failure of the exchange makes construction return an error
\* and no Client.
C9_FailureReturnsError ==
    ExchangeFailed => (ctor = "failed" /\ ctorError.kind # "-" /\ ~client.made)

\* C9, the half of it that holds: no Client exists after a failed exchange,
\* and no Client ever holds a Github credential
C9_NoPartialClient ==
    /\ ExchangeFailed => ~client.made
    /\ client.made => client.credential.kind # "Github"

\* C10: construction with an API token or without credential sends no
\* request, succeeds, and returns a Client with the credential and host
\* that were passed in.
C10_PlainConstruction ==
    (ctor # "idle" /\ ctorArgs.credential.kind \in {"Token", "None"})
    => ( /\ ctor = "ready"
         /\ client = MakeClient(ctorArgs.credential, ctorArgs.host)
         /\ \A i \in 1..Len(sent) : sent[i].by # "custom" )

\* C10 witness: a Client made from an API token, used for a fetch
C10_Witness ==
    /\ ctor = "ready"
    /\ ctorArgs.credential = Token("tok")
    /\ client.credential = Token("tok")
    /\ Len(sent) = 1
    /\ sent[1].by = "stream"

\* C11: no Client a caller can hold (the one construction returned, the
\* clone inside a stream's handle) has a Github credential.
C11_NoIdentityClient ==
    /\ client.made => client.credential.kind \in {"Token", "None"}
    /\ travis.made => travis.credential.kind \in {"Token", "None"}

\* C11 witness: a stream handle holds the clone of a Client that was
\* constructed from a Github credential
C11_Witness ==
    /\ ctorArgs.credential = Github("gh")
    /\ travis.made
    /\ travis.credential = Token("abc")

\* the credential of the Client that sent the i-th request
SenderCredential(i) == IF sent[i].by = "stream" THEN travis.credential ELSE client.credential

\* C12: a request built by raw_request has an Authorization header exactly
\* when the Client's credential is Token(t), with the value "token t"; after
\* an exchange that returned "abc" every such request carries "token abc".
C12_AuthorizationHeader ==
    \A i \in 1..Len(sent) :
        sent[i].by \in {"stream", "call"} =>
            /\ sent[i].req.authorization.some <=> SenderCredential(i).kind = "Token"
            /\ SenderCredential(i).kind = "Token" =>
                   sent[i].req.authorization.v = "token " \o SenderCredential(i).token
            /\ ( /\ ctorArgs.credential.kind = "Github"
                  /\ Text(exchangeResp.body) = "{\"access_token\":\"abc\"}" )
               => sent[i].req.authorization = Some("token abc")

\* C12 witness: the request after a successful exchange
C12_Witness ==
    /\ Len(sent) = 2
    /\ sent[1].by = "custom"
    /\ sent[2].by = "call"
    /\ sent[2].req.authorization = Some("token abc")

\* the call got a response whose body can be read
CallAnswered(kinds) ==
    /\ call \in {"done", "panicked"}
    /\ callKind \in kinds
    /\ callResp.sent
    /\ ToBytes(callResp.body).some

\* C13: delete returns Ok(()) for a 2xx response whose body is not the
\* JSON of the expected shape, the Fault for a non-2xx response with a
\* structured error body, and a transport error unchanged.
C13_DeleteResults ==
    /\ ( /\ CallAnswered({"delete"})
          /\ IsSuccess(callResp.status)
          /\ ~Decode("Unit", callResp.body).some )
       => (call = "done" /\ callResult = Ok("()"))
    /\ ( /\ CallAnswered({"delete"})
          /\ ~IsSuccess(callResp.status)
          /\ DecodeClientError(callResp.body).some )
       => ( /\ call = "done"
            /\ callResult = Err(Fault(callResp.status, DecodeClientError(callResp.body).v), "-") )
    /\ (call = "done" /\ callKind = "delete" /\ CallFetches = 1 /\ ~callResp.sent)
       => callResult = Err(Hyper, "-")

\* C14: a delete that was answered with a non-2xx status returns an error.
C14_DeleteNon2xxIsError ==
    ( /\ call = "done"
      /\ callKind = "delete"
      /\ callResp.sent
      /\ ~IsSuccess(callResp.status) )
    => callResult.r = "err"

\* C15: raw_request returns the body for a 2xx response, and for a non-2xx
\* response Fault{status, error_message} when the body decodes as a structured
\* error object and a decode error when it does not, 403 like any other status.
C15_RawClassification ==
    /\ ( /\ call \in {"done", "panicked"}
          /\ callKind = "raw_log"
          /\ callResp.sent
          /\ IsSuccess(callResp.status) )
       => (call = "done" /\ callResult = Ok("body"))
    /\ (CallAnswered({"raw_log"}) /\ ~IsSuccess(callResp.status))
       => ( /\ call = "done"
            /\ callResult = IF DecodeClientError(callResp.body).some
                             THEN Err(Fault(callResp.status, DecodeClientError(callResp.body).v), "-")
                             ELSE Err(Codec, "-") )

\* C16: request::<T> returns a value exactly when the request was answered
\* with a 2xx status and a body that decodes as T, and a decode error when
\* the 2xx body does not decode as T.
C16_RequestValue ==
    /\ (call = "done" /\ callKind \in {"get", "post", "patch"})
       => ( callResult.r = "ok"
            <=> ( /\ callResp.sent
                  /\ IsSuccess(callResp.status)
                  /\ ToBytes(callResp.body).some
                  /\ Decode("EnvVar", callResp.body).some ) )
    /\ ( /\ CallAnswered({"get", "post", "patch"})
          /\ IsSuccess(callResp.status)
          /\ ~Decode("EnvVar", callResp.body).some )
       => (call = "done" /\ callResult = Err(Codec, "-"))

\* C17: a call hands at most one request to the transport, whatever it
\* returns; so does every get call of a stream.
C17_OneRequestPerCall ==
    /\ CallFetches <= 1
    /\ call = "pending" => CallFetches = 1
    /\ call = "idle" => CallFetches = 0
    /\ IF stream \in {"first", "next", "dropped"}
       THEN StreamFetches <= Len(served) + 1
       ELSE StreamFetches <= Len(served)

\* C17 witness: a call returned a transport error after its one request
C17_Witness ==
    /\ call = "done"
    /\ callResult = Err(Hyper, "-")
    /\ CallFetches = 1

\* C18: a stream that reached its clean end over N pages sent N requests:
\* the first page's uri, then for each page the host followed by the href
\* of the page before it.
C18_OneFetchPerPage ==
    (stream = "done" /\ AllFetchesOk /\ Len(served) >= 1)
    => ( /\ Len(StreamSent) = Len(served)
         /\ StreamSent[1].req.uri =
                travis.host \o (IF iterKind = "builds" THEN "/repo/slug/builds?q"
                                                         ELSE "/owner/o/repos?q")
         /\ \A k \in 2..Len(served) :
                StreamSent[k].req.uri = travis.host \o served[k - 1].res.v.next.v )

\* C18 witness: a chain of three pages consumed to its clean end
C18_Witness ==
    /\ stream = "done"
    /\ AllFetchesOk
    /\ Len(served) = 3
    /\ served[2].res.v.next.v = "/p3"

\* C19: when the consumer keeps pulling and every fetch succeeds, a stream
\* over a finite chain of pages reaches end-of-stream.
C19_StreamTerminates ==
    (stream = "created") ~> (stream \in {"done", "dropped"} \/ ~AllFetchesOk)

\* C20 as stated: the exchange POST carries the user-agent, the API-version
\* header "3", the json content-type and the legacy Accept header.
C20_ExchangeAllStandardHeaders ==
    \A i \in 1..Len(sent) :
        sent[i].by = "custom" =>
            /\ sent[i].req.userAgent = "Travis/VERSION"
            /\ sent[i].req.apiVersion = Some("3")
            /\ sent[i].req.contentType = "json"
            /\ sent[i].req.accept = Some("application/vnd.travis-ci.2+json")

\* C20 amended: the exchange POST to {host}/auth/github carries the
\* user-agent, the json content-type and the legacy Accept header, and no
\* API-version header.
C20_ExchangeHeaders ==
    \A i \in 1..Len(sent) :
        sent[i].by = "custom" =>
            /\ sent[i].req.method = "POST"
            /\ sent[i].req.uri = ctorArgs.host \o "/auth/github"
            /\ sent[i].req.userAgent = "Travis/VERSION"
            /\ ~sent[i].req.apiVersion.some
            /\ sent[i].req.contentType = "json"
            /\ sent[i].req.accept = Some("application/vnd.travis-ci.2+json")

\* C20 witness: the exchange POST was sent
C20_Witness ==
    /\ Len(sent) >= 1
    /\ sent[1].by = "custom"
    /\ ctor = "exchanging"

\* C21: the Client construction returned keeps its credential and host
\* under every operation, and the clone a Builds/Repos handle holds has the
\* credential and host of the Client it was cloned from.
C21_ClientImmutable ==
    /\ [](travis.made => (client.made /\ travis = client))
    /\ [][client.made => client' = client]_vars
    /\ [][travis.made => travis' = travis]_vars

\* C21 witness: a stream on a Client with a token has fetched two pages
C21_Witness ==
    /\ travis.made
    /\ travis.credential = Token("tok")
    /\ travis.host = GoodHost
    /\ Len(served) = 2
    /\ pulls >= 2

\* the requests the stream sent during pull p
FetchesOfPull(p) == Len(SelectSeq(sent, LAMBDA x : x.by = "stream" /\ x.pull = p))

\* the get calls of the stream that handed a request to the transport
Answered == Len(SelectSeq(served, LAMBDA g : g.res.r # "err" \/ g.res.e.kind # "Uri"))

\* C23: the stream sends a GET for a later page only in a step after which
\* every item of every page fetched so far has been yielded, and it never
\* has two requests in flight.
C23_NoPrefetch ==
    /\ [][ (StreamFetches' = StreamFetches + 1 /\ Len(served') >= 1)
            => ( /\ YieldedItems' = ItemsThrough(Len(served))'
                 /\ state' = NoPage ) ]_vars
    /\ [](StreamFetches <= Answered + 1)
    /\ [](stream \in {"active", "erred", "done", "panicked"} => StreamFetches = Answered)

\* C23 witness: the second page is being fetched after the two items of the
\* first page were yielded
C23_Witness ==
    /\ stream = "next"
    /\ Len(served) = 1
    /\ Len(YieldedItems) = 2
    /\ StreamFetches = 2

\* C24: while the stream holds a page, its buffer is the reversed suffix of
\* the most recently fetched page that has not been yielded, and its
\* pagination is that page's; in every other state the stream holds no page.
C24_OnePageBuffered ==
    /\ stream = "active" =>
          /\ Len(served) >= 1
          /\ served[Len(served)].res.r = "ok"
          /\ state.next = served[Len(served)].res.v.next
          /\ Len(state.items) <= Len(served[Len(served)].res.v.items)
          /\ YieldedItems \o Reverse(state.items) = ItemsThrough(Len(served))
    /\ stream # "active" => state = NoPage

\* C24 witness: one of the two items of the second page is still buffered
C24_Witness ==
    /\ stream = "active"
    /\ Len(served) = 2
    /\ Len(served[2].res.v.items) = 2
    /\ Len(state.items) = 1

\* C25: the k-th request of a stream, k > 1, is a GET of the handle's host
\* followed by the next.href of the page the (k-1)-th get call returned.
C25_NextFromPrecedingPage ==
    \A k \in 2..Len(StreamSent) :
        /\ Len(served) >= k - 1
        /\ served[k - 1].res.r = "ok"
        /\ served[k - 1].res.v.next.some
        /\ StreamSent[k].req.method = "GET"
        /\ StreamSent[k].req.uri = travis.host \o served[k - 1].res.v.next.v

\* C25 witness: the third page is being fetched
C25_Witness ==
    /\ stream = "next"
    /\ Len(StreamSent) = 3
    /\ served[1].res.v.next.v # served[2].res.v.next.v

\* C27 as stated: no pull sends more than one GET.
C27_OneFetchPerPull ==
    \A p \in 1..pulls : FetchesOfPull(p) <= 1

\* C27 amended: a pull sends at most one GET, except the first pull, which
\* sends a second one when the first page has no items and names a next page.
C27_FetchesPerPull ==
    \A p \in 1..pulls :
        /\ FetchesOfPull(p) <= 2
        /\ FetchesOfPull(p) = 2 =>
              /\ p = 1
              /\ served[1].res.r = "ok"
              /\ Len(served[1].res.v.items) = 0
              /\ served[1].res.v.next.some

\* C27 witness: the first pull sent two GETs, a later pull one more
C27_Witness ==
    /\ pulls >= 2
    /\ FetchesOfPull(1) = 2
    /\ FetchesOfPull(pulls) = 1

\* C28: a pull on a stream that has yielded an error or end-of-stream
\* returns end-of-stream and sends nothing; no item follows an error or an
\* end-of-stream.
C28_EndedStaysEnded ==
    /\ [][ (stream \in {"erred", "done"} /\ pulls' = pulls + 1)
            => ( /\ yielded' = Append(yielded, YEnd(pulls'))
                 /\ sent' = sent
                 /\ stream' = "done" ) ]_vars
    /\ [](\A i \in 1..Len(yielded) : \A j \in (i + 1)..Len(yielded) :
              yielded[i].t \in {"err", "end"} => yielded[j].t = "end")

\* C28 witness: after an error the consumer pulled twice more
C28_Witness ==
    /\ stream = "done"
    /\ endPulls = 1
    /\ Len(yielded) >= 3
    /\ yielded[Len(yielded) - 2].t = "err"

\* C29: building a stream sends nothing; the stream has sent nothing until
\* its first pull, so a stream dropped unpulled has sent nothing.
C29_LazyFirstFetch ==
    /\ [](pulls = 0 => StreamFetches = 0)
    /\ [][(stream = "none" /\ stream' # "none") => (stream' = "created" /\ sent' = sent)]_vars
    /\ [][(stream = "created" /\ StreamFetches' = 1) => pulls' = 1]_vars

\* C29 witness: a stream was dropped before its first pull
C29_Witness ==
    /\ stream = "dropped"
    /\ travis.made
    /\ pulls = 0
    /\ StreamFetches = 0

C30_ListMatchesIter ==
    \A i \in 1..Len(sent) :
        (sent[i].by = "call" /\ callKind = "repos_list") =>
            /\ sent[i].req.uri = FirstUri("repos", client.host)
            /\ sent[i].req.uri = client.host \o "/owner/o/repos?q"

\* the most steps a stream takes alone: a pull per item, per fetch and per end
SoloSteps == 2 * (MaxFetches + 1) * (MaxPageLen + 2)

RECURSIVE SoloRun(_, _)
\* stream s run alone against the answers the server has given, as far as
\* they are known: pull until the end, resume on every answer
SoloRun(s, fuel) ==
    IF fuel = 0 \/ s.st \in {"done", "panicked"} THEN s
    ELSE IF s.st \in {"first", "next"}
    THEN IF Last(s.fetched).uri \in PairUris /\ server[Last(s.fetched).uri].known
         THEN SoloRun(Resumed(s, RequestWrapper(server[Last(s.fetched).uri].resp)), fuel - 1)
         ELSE s
    ELSE SoloRun(Pulled(s), fuel - 1)

\* stream i as Builds::iter / Repos::iter built it, run alone
Solo(i) ==
    SoloRun([NoStream EXCEPT !.st = "created", !.kind = streams[i].kind, !.travis = shared],
            SoloSteps)

IsPrefix(a, b) == Len(a) <= Len(b) /\ SubSeq(b, 1, Len(a)) = a

\* C26: each of two streams of one Client, pulled in any interleaving, has
\* yielded and requested a prefix of what it yields and requests when run
\* alone against the same answers, and all of it once it has ended; its
\* handle holds the Client's credential and host.
C26_StreamsIndependent ==
    \A i \in StreamIds :
        streams[i].st # "none" =>
            /\ streams[i].travis = shared
            /\ IsPrefix(streams[i].yielded, Solo(i).yielded)
            /\ IsPrefix(streams[i].fetched, Solo(i).fetched)
            /\ streams[i].st = "done" =>
                  /\ streams[i].yielded = Solo(i).yielded
                  /\ streams[i].fetched = Solo(i).fetched

\* C26 witness: two streams over the same listing, one waiting for its
\* second page while the other is in the middle of its first
C26_Witness ==
    /\ streams[1].kind = streams[2].kind
    /\ streams[1].st = "next"
    /\ Len(streams[1].fetched) = 2
    /\ Len(streams[1].yielded) = MaxPageLen
    /\ streams[2].st = "active"
    /\ Len(streams[2].fetched) = 1
    /\ Len(streams[2].yielded) = 1

====
